---------------------------- MODULE Spec2Model ----------------------------
(***************************************************************************)
(* Route planning of the indoor navigation map: the waypoint graph         *)
(* navigationNodes, calculateDistance, getDirection, findPath (Dijkstra,   *)
(* predecessor walk, instruction synthesis) and getPathNodes of            *)
(* utils/pathfinding.                                                      *)
(*                                                                         *)
(* Numbers.  Positions are integers in the dataset.  A distance is a       *)
(* JavaScript double, sqrt of an integer; it is modelled in fixed point,   *)
(* in units of 1/Scale, rounded down.  PathStep.distance is kept in tenths *)
(* (the code rounds it to one decimal).  Infinity is the sentinel -1 and   *)
(* is compared through LessThan only.                                      *)
(***************************************************************************)
EXTENDS Integers, Sequences, FiniteSets, TLC

\* ------------------------------------------------------------------ bounds

\* Fixed-point resolution of a distance: Scale units per coordinate unit.
Scale == 1000

\* The predecessor walk is followed for at most (number of waypoints +
\* MaxExtraWalk) entries; a walk that has not stopped by then never stops.
MaxExtraWalk == 2

\* ------------------------------------------------------- values of the code

Infinity == -1
Null == "<null>"
Undefined == "<undefined>"

\* Keys that are canonical array indices: Object.keys lists them first.
IntegerKeys == {"11840"}

\* --------------------------------------------------------------- the graphs

\* navigationNodes, in the order the literal lists its properties.
slcNodes ==
  << [id |-> "ENTRANCE",  position |-> <<0, 1, -4>>,  floor |-> 1, type |-> "entrance",
      connections |-> <<"HALL1_1", "HALL1_2">>],
     [id |-> "HALL1_1",   position |-> <<0, 1, -2>>,  floor |-> 1, type |-> "hallway",
      connections |-> <<"ENTRANCE", "HALL1_2", "B101", "STAIRS1">>],
     [id |-> "HALL1_2",   position |-> <<2, 1, 0>>,   floor |-> 1, type |-> "hallway",
      connections |-> <<"HALL1_1", "11840", "CAFE", "ELEVATOR1">>],
     [id |-> "STAIRS1",   position |-> <<-1, 1, -1>>, floor |-> 1, type |-> "stairs",
      connections |-> <<"HALL1_1", "STAIRS2">>],
     [id |-> "ELEVATOR1", position |-> <<3, 1, -1>>,  floor |-> 1, type |-> "elevator",
      connections |-> <<"HALL1_2", "ELEVATOR2">>],
     [id |-> "B101",      position |-> <<0, 1, -2>>,  floor |-> 1, type |-> "room",
      connections |-> <<"HALL1_1">>],
     [id |-> "11840",     position |-> <<-2, 1, 2>>,  floor |-> 1, type |-> "room",
      connections |-> <<"HALL1_2">>],
     [id |-> "CAFE",      position |-> <<3, 1, 0>>,   floor |-> 1, type |-> "room",
      connections |-> <<"HALL1_2">>],
     [id |-> "STAIRS2",   position |-> <<-1, 2, -1>>, floor |-> 2, type |-> "stairs",
      connections |-> <<"STAIRS1", "HALL2_1">>],
     [id |-> "ELEVATOR2", position |-> <<3, 2, -1>>,  floor |-> 2, type |-> "elevator",
      connections |-> <<"ELEVATOR1", "HALL2_2">>],
     [id |-> "HALL2_1",   position |-> <<0, 2, 0>>,   floor |-> 2, type |-> "hallway",
      connections |-> <<"STAIRS2", "HALL2_2", "A233", "C205">>],
     [id |-> "HALL2_2",   position |-> <<2, 2, 1>>,   floor |-> 2, type |-> "hallway",
      connections |-> <<"HALL2_1", "ELEVATOR2", "LIB">>],
     [id |-> "A233",      position |-> <<2, 2, 0>>,   floor |-> 2, type |-> "room",
      connections |-> <<"HALL2_1">>],
     [id |-> "C205",      position |-> <<-1, 2, 1>>,  floor |-> 2, type |-> "room",
      connections |-> <<"HALL2_1">>],
     [id |-> "LIB",       position |-> <<0, 2, 3>>,   floor |-> 2, type |-> "room",
      connections |-> <<"HALL2_2">>] >>

\* A graph with two disconnected components (a main wing and an annex), the
\* synthetic dataset the specification's properties on unreachable
\* destinations are stated for.
twoWingNodes ==
  << [id |-> "LOBBY",      position |-> <<0, 1, 0>>, floor |-> 1, type |-> "entrance",
      connections |-> <<"CORRIDOR">>],
     [id |-> "CORRIDOR",   position |-> <<2, 1, 0>>, floor |-> 1, type |-> "hallway",
      connections |-> <<"LOBBY", "OFFICE">>],
     [id |-> "OFFICE",     position |-> <<2, 1, 2>>, floor |-> 1, type |-> "room",
      connections |-> <<"CORRIDOR">>],
     [id |-> "ANNEX_LIFT", position |-> <<9, 1, 0>>, floor |-> 1, type |-> "elevator",
      connections |-> <<"ANNEX_ROOM">>],
     [id |-> "ANNEX_ROOM", position |-> <<9, 2, 0>>, floor |-> 2, type |-> "room",
      connections |-> <<"ANNEX_LIFT">>] >>

\* A graph of which one connections list names REMOVED_ROOM, a key of no node.
strayLinkNodes ==
  << [id |-> "GATE",    position |-> <<0, 1, 0>>, floor |-> 1, type |-> "entrance",
      connections |-> <<"PASSAGE">>],
     [id |-> "PASSAGE", position |-> <<3, 1, 0>>, floor |-> 1, type |-> "hallway",
      connections |-> <<"GATE", "REMOVED_ROOM", "STORE", "ARCHIVE">>],
     [id |-> "STORE",   position |-> <<3, 1, 4>>, floor |-> 1, type |-> "room",
      connections |-> <<"PASSAGE", "ARCHIVE">>],
     [id |-> "ARCHIVE", position |-> <<6, 1, 4>>, floor |-> 1, type |-> "room",
      connections |-> <<"STORE", "PASSAGE">>] >>

Graphs == {slcNodes, twoWingNodes, strayLinkNodes}

\* An id that is a key of no graph.
UnknownIds == {"UNKNOWN_ID"}

\* ------------------------------------------------------------ graph access

Range(s) == {s[i] : i \in DOMAIN s}

\* Object.keys(g): integer-like keys first, then the others in insertion order.
ObjectKeys(g) ==
  LET ids == [i \in DOMAIN g |-> g[i].id]
  IN  SelectSeq(ids, LAMBDA k : k \in IntegerKeys)
        \o SelectSeq(ids, LAMBDA k : k \notin IntegerKeys)

Keys(g) == {g[i].id : i \in DOMAIN g}

\* g[id] for a key id.
Node(g, id) == g[CHOOSE i \in DOMAIN g : g[i].id = id]

\* obj[key] of a Record: undefined when the key is absent.
Lookup(obj, key) == IF key \in DOMAIN obj THEN obj[key] ELSE Undefined

\* ---------------------------------------------------------------- numbers

\* a < b on doubles that may be Infinity.
LessThan(a, b) == a # Infinity /\ (b = Infinity \/ a < b)

RECURSIVE ISqrtFrom(_, _, _)
\* The largest r in lo..hi with r * r <= n (lo * lo <= n assumed).
ISqrtFrom(n, lo, hi) ==
  IF lo >= hi THEN lo
  ELSE LET mid == (lo + hi + 1) \div 2
       IN  IF mid * mid <= n THEN ISqrtFrom(n, mid, hi)
                             ELSE ISqrtFrom(n, lo, mid - 1)

\* Math.sqrt(n) * Scale, rounded down; n a sum of squared coordinate
\* differences.
SqrtScaled(n) == ISqrtFrom(n * Scale * Scale, 0, (n + 1) * Scale)

\* calculateDistance(pos1, pos2), in units of 1/Scale.
calculateDistance(pos1, pos2) ==
  LET x1 == pos1[1]  y1 == pos1[2]  z1 == pos1[3]
      x2 == pos2[1]  y2 == pos2[2]  z2 == pos2[3]
  IN  SqrtScaled((x2 - x1) * (x2 - x1) + (y2 - y1) * (y2 - y1)
                 + (z2 - z1) * (z2 - z1))

\* Math.round(distance * 10), distance in units of 1/Scale: the value of
\* PathStep.distance in tenths.  Math.round rounds halves up.
RoundTenths(distance) == (20 * distance + Scale) \div (2 * Scale)

\* Math.atan2(dz, dx) * 180 / Math.PI in tenths of a degree, rounded down to
\* a multiple of 22.5 degrees, for dx > 0, dz >= 0: one of 0, 225, 450, 675.
\* tan 22.5 = sqrt 2 - 1 and tan 67.5 = sqrt 2 + 1, so the tests are exact
\* on integers.
QuadrantAngle(dx, dz) ==
  IF dz < dx
  THEN (IF (dz + dx) * (dz + dx) < 2 * dx * dx THEN 0 ELSE 225)
  ELSE (IF (dz - dx) * (dz - dx) < 2 * dx * dx THEN 450 ELSE 675)

\* Math.atan2(dz, dx) * 180 / Math.PI in tenths of a degree, rounded down to
\* a multiple of 22.5 degrees; the result is in -1800 .. 1800, and every
\* comparison of it with a multiple of 22.5 degrees is that of the angle.
\* atan2(0, 0) is 0, and atan2(0, dx) is 180 for dx < 0 (dz is never -0).
Atan2Tenths(dz, dx) ==
  IF dx = 0 /\ dz = 0 THEN 0
  ELSE IF dx > 0 /\ dz >= 0 THEN QuadrantAngle(dx, dz)
  ELSE IF dx <= 0 /\ dz > 0 THEN 900 + QuadrantAngle(dz, -dx)
  ELSE IF dz = 0 THEN 1800
  ELSE IF dx < 0 THEN -1800 + QuadrantAngle(-dx, -dz)
  ELSE -900 + QuadrantAngle(-dz, dx)

\* Mutant of SectorTests: the west test joins its two halves with && .
SectorTestsWestAnd(angle) ==
  << angle >= -225 /\ angle < 225,
     angle >= 225 /\ angle < 675,
     angle >= 675 /\ angle < 1125,
     angle >= 1125 /\ angle < 1575,
     angle >= 1575 /\ angle < -1575,
     angle >= -1575 /\ angle < -1125,
     angle >= -1125 /\ angle < -675,
     angle >= -675 /\ angle < -225 >>

\* The eight interval tests of getDirection, in the order of the code, on an
\* angle in tenths of a degree.
SectorTests(angle) ==
  << angle >= -225 /\ angle < 225,
     angle >= 225 /\ angle < 675,
     angle >= 675 /\ angle < 1125,
     angle >= 1125 /\ angle < 1575,
     angle >= 1575 \/ angle < -1575,
     angle >= -1575 /\ angle < -1125,
     angle >= -1125 /\ angle < -675,
     angle >= -675 /\ angle < -225 >>

\* The label each test returns.
SectorLabels ==
  <<"east", "northeast", "north", "northwest", "west", "southwest", "south",
    "southeast">>

\* The chain of if ... return of getDirection: the label of the first test
\* that holds, 'forward' when none does.
DirectionOfAngle(angle) ==
  LET hits == {i \in 1 .. 8 : SectorTests(angle)[i]}
  IN  IF hits = {} THEN "forward"
      ELSE SectorLabels[CHOOSE i \in hits : \A j \in hits : i <= j]

\* Mutant of getDirection: the second destructured coordinate is y.
getDirectionVertical(from, to) ==
  LET dx == to[1] - from[1]
      dy == to[2] - from[2]
  IN  DirectionOfAngle(Atan2Tenths(dy, dx))

\* getDirection(from, to): the y coordinates are not read.
getDirection(from, to) ==
  LET dx == to[1] - from[1]
      dz == to[3] - from[3]
  IN  DirectionOfAngle(Atan2Tenths(dz, dx))

\* --------------------------------------------------- findPath: the search

\* distances after the initialisation loop.
InitDistances(g, start) ==
  [nodeId \in Keys(g) |-> IF nodeId = start THEN 0 ELSE Infinity]

\* previous after the initialisation loop.
InitPrevious(g) == [nodeId \in Keys(g) |-> Null]

RECURSIVE ScanMinStale(_, _, _, _, _, _)
\* Mutant of ScanMin: minDistance is not updated, so the last unvisited key
\* with a finite distance wins.
ScanMinStale(keys, i, unv, dist, currentNode, minDistance) ==
  IF i > Len(keys) THEN currentNode
  ELSE IF keys[i] \in unv /\ LessThan(dist[keys[i]], minDistance)
       THEN ScanMinStale(keys, i + 1, unv, dist, keys[i], minDistance)
       ELSE ScanMinStale(keys, i + 1, unv, dist, currentNode, minDistance)

RECURSIVE ScanMin(_, _, _, _, _, _)
\* The for loop over unvisited that finds the node of minimum distance: the
\* Set iterates in insertion order, which is that of Object.keys.  Returns
\* currentNode (Null when no node has a finite distance).
ScanMin(keys, i, unv, dist, currentNode, minDistance) ==
  IF i > Len(keys) THEN currentNode
  ELSE IF keys[i] \in unv /\ LessThan(dist[keys[i]], minDistance)
       THEN ScanMin(keys, i + 1, unv, dist, keys[i], dist[keys[i]])
       ELSE ScanMin(keys, i + 1, unv, dist, currentNode, minDistance)

SelectMin(g, unv, dist) == ScanMin(ObjectKeys(g), 1, unv, dist, Null, Infinity)

\* Mutant of SkipNeighbor: no neighbor id is skipped.
SkipNone(unv, neighborId) == FALSE

\* if (!unvisited.has(neighborId)) continue
SkipNeighbor(unv, neighborId) == neighborId \notin unv

\* Mutant of Improves: the comparison is left out, every unvisited neighbor is
\* overwritten.
ImprovesAlways(newDistance, oldDistance) == TRUE

\* Mutant of Improves: the comparison is reversed.
ImprovesReversed(newDistance, oldDistance) == LessThan(oldDistance, newDistance)

\* if (newDistance < distances[neighborId])
Improves(newDistance, oldDistance) == LessThan(newDistance, oldDistance)

\* Mutant of NewDistance: the distance of currentNode is not added.
NewDistanceEdgeOnly(dist, currentNode, distance) == distance

\* const newDistance = distances[currentNode] + distance
NewDistance(dist, currentNode, distance) == dist[currentNode] + distance

RECURSIVE Relax(_, _, _, _, _, _)
\* The for loop over node.connections, from index i on; unv is the unvisited
\* set after currentNode was deleted.  Returns the updated distances and
\* previous; thrown tells that the loop ended in a TypeError, the read of
\* neighbor.position with navigationNodes[neighborId] undefined.
Relax(g, currentNode, i, unv, dist, prev) ==
  LET node == Node(g, currentNode)
  IN  IF i > Len(node.connections)
      THEN [distances |-> dist, previous |-> prev, thrown |-> FALSE]
      ELSE LET neighborId == node.connections[i]
           IN  IF SkipNeighbor(unv, neighborId)
               THEN Relax(g, currentNode, i + 1, unv, dist, prev)
               ELSE IF neighborId \notin Keys(g)
               THEN [distances |-> dist, previous |-> prev, thrown |-> TRUE]
               ELSE LET neighbor == Node(g, neighborId)
                        distance == calculateDistance(node.position, neighbor.position)
                        newDistance == NewDistance(dist, currentNode, distance)
                    IN  IF Improves(newDistance, dist[neighborId])
                        THEN Relax(g, currentNode, i + 1, unv,
                                   [dist EXCEPT ![neighborId] = newDistance],
                                   [prev EXCEPT ![neighborId] = currentNode])
                        ELSE Relax(g, currentNode, i + 1, unv, dist, prev)

\* ------------------------------------------- findPath: the instructions

\* The stairs branch: instruction and floorChange.
StairsPhrase(fromNode, toNode) ==
  IF toNode.floor > fromNode.floor
  THEN [instruction |-> "Take the stairs up to floor " \o ToString(toNode.floor),
        floorChange |-> "up"]
  ELSE [instruction |-> "Take the stairs down to floor " \o ToString(toNode.floor),
        floorChange |-> "down"]

\* Mutant of ElevatorPhrase: the equal-floor case is not told apart, as in the
\* stairs branch.
ElevatorPhraseTwoWay(fromNode, toNode) ==
  IF toNode.floor > fromNode.floor
  THEN [instruction |-> "Take the elevator up to floor " \o ToString(toNode.floor),
        floorChange |-> "up"]
  ELSE [instruction |-> "Take the elevator down to floor " \o ToString(toNode.floor),
        floorChange |-> "down"]

\* The elevator branch: instruction and floorChange.
ElevatorPhrase(fromNode, toNode) ==
  IF toNode.floor > fromNode.floor
  THEN [instruction |-> "Take the elevator up to floor " \o ToString(toNode.floor),
        floorChange |-> "up"]
  ELSE IF toNode.floor < fromNode.floor
  THEN [instruction |-> "Take the elevator down to floor " \o ToString(toNode.floor),
        floorChange |-> "down"]
  ELSE [instruction |-> "Continue to the elevator", floorChange |-> Undefined]

\* Mutant of Phrase: the chain tests the type of the waypoint the step leaves.
PhraseOfSource(fromNode, toNode, direction) ==
  IF fromNode.type = "stairs" THEN StairsPhrase(fromNode, toNode)
  ELSE IF fromNode.type = "elevator" THEN ElevatorPhrase(fromNode, toNode)
  ELSE IF fromNode.type = "room"
  THEN [instruction |-> "Arrive at " \o toNode.id, floorChange |-> Undefined]
  ELSE IF fromNode.type = "hallway"
  THEN [instruction |-> "Continue " \o direction \o " down the hallway",
        floorChange |-> Undefined]
  ELSE [instruction |-> "Head " \o direction, floorChange |-> Undefined]

\* The if chain on toNode.type: instruction and floorChange of a step.
Phrase(fromNode, toNode, direction) ==
  IF toNode.type = "stairs" THEN StairsPhrase(fromNode, toNode)
  ELSE IF toNode.type = "elevator" THEN ElevatorPhrase(fromNode, toNode)
  ELSE IF toNode.type = "room"
  THEN [instruction |-> "Arrive at " \o toNode.id, floorChange |-> Undefined]
  ELSE IF toNode.type = "hallway"
  THEN [instruction |-> "Continue " \o direction \o " down the hallway",
        floorChange |-> Undefined]
  ELSE [instruction |-> "Head " \o direction, floorChange |-> Undefined]

\* The PathStep pushed for one consecutive pair of the path; distance is in
\* tenths.
MakeStep(fromNode, toNode) ==
  LET direction == getDirection(fromNode.position, toNode.position)
      distance == calculateDistance(fromNode.position, toNode.position)
      phrase == Phrase(fromNode, toNode, direction)
  IN  [from |-> fromNode.id,
       to |-> toNode.id,
       direction |-> direction,
       distance |-> RoundTenths(distance),
       instruction |-> phrase.instruction,
       floor |-> toNode.floor,
       floorChange |-> phrase.floorChange]

\* Mutant of Synthesize: the loop runs to i < path.length, one step per entry
\* of the path.
SynthesizeEveryEntry(g, p) ==
  [i \in 1 .. Len(p) |->
     MakeStep(Node(g, p[i]), Node(g, p[IF i < Len(p) THEN i + 1 ELSE i]))]

\* Mutant of Synthesize: fromNode and toNode are taken the wrong way round.
SynthesizeBackward(g, p) ==
  [i \in 1 .. (Len(p) - 1) |-> MakeStep(Node(g, p[i + 1]), Node(g, p[i]))]

\* The loop for (i = 0; i < path.length - 1; i++) that converts the path.
Synthesize(g, p) ==
  [i \in 1 .. (Len(p) - 1) |-> MakeStep(Node(g, p[i]), Node(g, p[i + 1]))]

\* Mutant of Unshift: the entry is pushed, the path is left in walk order.
UnshiftAtEnd(p, entry) == Append(p, entry)

\* path.unshift(current)
Unshift(p, entry) == <<entry>> \o p

\* ------------------------------------------------------------- the state

VARIABLES
  navigationNodes,  \* the module-level waypoint graph
  pc,               \* where the running findPath call is: "idle" (no call),
                    \* "search", "reconstruct", "synthesize", "done" (returned)
  startId, endId,   \* the arguments of the call
  distances,        \* findPath's local Record distances
  previous,         \* findPath's local Record previous
  unvisited,        \* findPath's local Set unvisited
  path, current,    \* the locals of the predecessor walk
  result,           \* what the call gave its caller: [kind, steps]
  settled,          \* history: the nodes the running call deleted from
                    \* unvisited, in order, each with its distance and
                    \* previous entry at that moment
  pathNodes,        \* what the caller's last getPathNodes call returned
  args, value,      \* a function applied on its own: its arguments and
                    \* what it returned
  earlier,          \* history: a findPath call has returned before
  destination,      \* Navigation3D's state destination
  currentFloor,     \* Navigation3D's state currentFloor
  pathSteps,        \* Navigation3D's state pathSteps
  currentStep,      \* Navigation3D's state currentStep (counted from 0)
  isARActive        \* Navigation3D's state isARActive

vars == <<navigationNodes, pc, startId, endId, distances, previous, unvisited,
          path, current, result, settled, pathNodes, args, value, earlier,
          destination, currentFloor, pathSteps, currentStep, isARActive>>

\* The state of the Navigation3D component.
uiVars == <<destination, currentFloor, pathSteps, currentStep, isARActive>>

\* No function is applied on its own.
NoArgs == [fn |-> "none"]

\* No call has returned.
NoResult == [kind |-> "none", steps |-> <<>>]

\* findPath has one way to end: return steps, a PathStep[].
Returned(steps) == [kind |-> "steps", steps |-> steps]

\* No function has been applied on its own.
NoValue == [applied |-> FALSE]

\* What a function applied on its own returned.
Applied(returned) == [applied |-> TRUE, result |-> returned]

\* The call ended in an uncaught exception.
Threw(error) == [kind |-> error, steps |-> <<>>]

\* Mutant of getPathNodes: the ids are pushed on an array, not added to a Set.
getPathNodesArray(steps) ==
  [k \in 1 .. 2 * Len(steps) |->
     IF k % 2 = 1 THEN steps[(k + 1) \div 2].from ELSE steps[k \div 2].to]

RECURSIVE AddStepsToOnly(_, _, _)
\* Mutant of AddSteps: only step.to is added.
AddStepsToOnly(nodes, steps, i) ==
  IF i > Len(steps) THEN nodes
  ELSE AddStepsToOnly(IF steps[i].to \in Range(nodes) THEN nodes
                      ELSE Append(nodes, steps[i].to), steps, i + 1)

RECURSIVE AddSteps(_, _, _)
\* The loop of getPathNodes: from and to of every step are added to a Set,
\* which keeps its entries in the order of their first insertion.
AddSteps(nodes, steps, i) ==
  IF i > Len(steps) THEN nodes
  ELSE LET withFrom == IF steps[i].from \in Range(nodes) THEN nodes
                       ELSE Append(nodes, steps[i].from)
           withTo == IF steps[i].to \in Range(withFrom) THEN withFrom
                     ELSE Append(withFrom, steps[i].to)
       IN  AddSteps(withTo, steps, i + 1)

\* getPathNodes(steps): the Set of the endpoints as an array.
getPathNodes(steps) == AddSteps(<<>>, steps, 1)

Init ==
  /\ navigationNodes \in Graphs
  /\ pc = "idle"
  /\ startId = Null
  /\ endId = Null
  /\ distances = <<>>
  /\ previous = <<>>
  /\ unvisited = {}
  /\ path = <<>>
  /\ current = Null
  /\ result = NoResult
  /\ settled = <<>>
  /\ pathNodes = Null
  /\ args = NoArgs
  /\ value = NoValue
  /\ earlier = FALSE
  /\ destination = Null
  /\ currentFloor = 1
  /\ pathSteps = <<>>
  /\ currentStep = 0
  /\ isARActive = FALSE

\* Mutant of Call: the call reverses the connections list of its start
\* waypoint in place.
CallReversing(a, b) ==
  /\ pc = "idle"
  /\ pc' = "search"
  /\ startId' = a
  /\ endId' = b
  /\ navigationNodes' =
       [i \in DOMAIN navigationNodes |->
          IF navigationNodes[i].id = a
          THEN [navigationNodes[i] EXCEPT !.connections =
                  [k \in 1 .. Len(@) |-> @[Len(@) + 1 - k]]]
          ELSE navigationNodes[i]]
  /\ distances' = InitDistances(navigationNodes, a)
  /\ previous' = InitPrevious(navigationNodes)
  /\ unvisited' = Keys(navigationNodes)
  /\ path' = <<>>
  /\ current' = Null
  /\ result' = NoResult
  /\ settled' = <<>>
  /\ pathNodes' = Null
  /\ UNCHANGED <<args, value, earlier, uiVars>>

\* findPath(a, b) is called: the declarations and the initialisation loop.
Call(a, b) ==
  /\ pc = "idle"
  /\ pc' = "search"
  /\ startId' = a
  /\ endId' = b
  /\ distances' = InitDistances(navigationNodes, a)
  /\ previous' = InitPrevious(navigationNodes)
  /\ unvisited' = Keys(navigationNodes)
  /\ path' = <<>>
  /\ current' = Null
  /\ result' = NoResult
  /\ settled' = <<>>
  /\ pathNodes' = Null
  /\ UNCHANGED <<navigationNodes, args, value, earlier, uiVars>>

\* The search loop is left: const path = [], let current = endId.
LeaveSearch ==
  /\ pc' = "reconstruct"
  /\ path' = <<>>
  /\ current' = endId

\* Mutant of Delete: nothing is deleted.
DeleteNothing(unv, currentNode) == unv

\* unvisited.delete(currentNode)
Delete(unv, currentNode) == unv \ {currentNode}

\* The history entry of the deletion of currentNode from unvisited.
Settlement(currentNode) ==
  [node |-> currentNode, distance |-> distances[currentNode],
   previous |-> previous[currentNode]]

\* One evaluation of the while condition and, when it holds, one iteration of
\* the search loop.
SearchStep ==
  /\ pc = "search"
  /\ LET currentNode == SelectMin(navigationNodes, unvisited, distances)
     IN  IF unvisited = {}
         THEN /\ LeaveSearch
              /\ UNCHANGED <<distances, previous, unvisited, result, settled>>
         ELSE IF currentNode = Null \/ distances[currentNode] = Infinity
         THEN /\ LeaveSearch
              /\ UNCHANGED <<distances, previous, unvisited, result, settled>>
         ELSE IF currentNode = endId
         THEN /\ LeaveSearch
              /\ unvisited' = Delete(unvisited, currentNode)
              /\ settled' = Append(settled, Settlement(currentNode))
              /\ UNCHANGED <<distances, previous, result>>
         ELSE LET relaxed == Relax(navigationNodes, currentNode, 1,
                                   Delete(unvisited, currentNode), distances, previous)
              IN  /\ unvisited' = Delete(unvisited, currentNode)
                  /\ settled' = Append(settled, Settlement(currentNode))
                  /\ distances' = relaxed.distances
                  /\ previous' = relaxed.previous
                  /\ IF relaxed.thrown
                     THEN pc' = "done" /\ result' = Threw("TypeError")
                     ELSE UNCHANGED <<pc, result>>
                  /\ UNCHANGED <<path, current>>
  /\ UNCHANGED <<navigationNodes, startId, endId, pathNodes, args, value,
                 earlier, uiVars>>

\* The longest walk the model follows.
WalkCap == Cardinality(Keys(navigationNodes)) + MaxExtraWalk

\* One evaluation of while (current !== null) and, when it holds, one
\* iteration: path.unshift(current); current = previous[current].
ReconstructStep ==
  /\ pc = "reconstruct"
  /\ IF current # Null
     THEN /\ Len(path) < WalkCap
          /\ path' = Unshift(path, current)
          /\ current' = Lookup(previous, current)
          /\ UNCHANGED pc
     ELSE /\ pc' = "synthesize"
          /\ UNCHANGED <<path, current>>
  /\ UNCHANGED <<navigationNodes, startId, endId, distances, previous,
                 unvisited, result, settled, pathNodes, args, value, earlier,
                 uiVars>>

\* The conversion loop and return steps.
SynthesizeAndReturn ==
  /\ pc = "synthesize"
  /\ pc' = "done"
  /\ result' = Returned(Synthesize(navigationNodes, path))
  /\ UNCHANGED <<navigationNodes, startId, endId, distances, previous,
                 unvisited, path, current, settled, pathNodes, args, value,
                 earlier, uiVars>>

\* The caller has taken the result; the locals of the call are gone.
Finish ==
  /\ pc = "done"
  /\ pc' = "idle"
  /\ startId' = Null
  /\ endId' = Null
  /\ distances' = <<>>
  /\ previous' = <<>>
  /\ unvisited' = {}
  /\ path' = <<>>
  /\ current' = Null
  /\ result' = NoResult
  /\ settled' = <<>>
  /\ pathNodes' = Null
  /\ earlier' = TRUE
  /\ UNCHANGED <<navigationNodes, args, value, uiVars>>

\* The caller passes the steps it holds (those of the call that has returned,
\* or none) to getPathNodes.
GetPathNodes ==
  /\ pc \in {"idle", "done"}
  /\ pathNodes' = getPathNodes(result.steps)
  /\ UNCHANGED <<navigationNodes, pc, startId, endId, distances, previous,
                 unvisited, path, current, result, settled, args, value,
                 earlier, uiVars>>

\* ------------------------------------------------- findPath as a function

RECURSIVE SearchLoop(_, _, _, _, _)
\* The search loop run to its end: previous when the loop is left, and
\* whether it ended in a TypeError instead.
SearchLoop(g, end, unv, dist, prev) ==
  LET currentNode == SelectMin(g, unv, dist)
  IN  IF unv = {} \/ currentNode = Null \/ dist[currentNode] = Infinity
           \/ currentNode = end
      THEN [previous |-> prev, thrown |-> FALSE]
      ELSE LET relaxed == Relax(g, currentNode, 1, Delete(unv, currentNode),
                                dist, prev)
           IN  IF relaxed.thrown THEN [previous |-> prev, thrown |-> TRUE]
               ELSE SearchLoop(g, end, Delete(unv, currentNode),
                               relaxed.distances, relaxed.previous)

RECURSIVE WalkBack(_, _, _)
\* The predecessor walk run to its end (it has one when cur is a key of prev).
WalkBack(prev, cur, p) ==
  IF cur = Null THEN p ELSE WalkBack(prev, Lookup(prev, cur), Unshift(p, cur))

\* What findPath(a, b) gives on the graph g, for a key b.
findPath(g, a, b) ==
  LET searched == SearchLoop(g, b, Keys(g), InitDistances(g, a), InitPrevious(g))
  IN  IF searched.thrown THEN Threw("TypeError")
      ELSE Returned(Synthesize(g, WalkBack(searched.previous, b, <<>>)))

\* The ids a caller may pass.
Ids == Keys(navigationNodes) \cup UnknownIds

Next ==
  \/ \E a \in Ids, b \in Ids : Call(a, b)
  \/ SearchStep
  \/ ReconstructStep
  \/ SynthesizeAndReturn
  \/ Finish
  \/ GetPathNodes

Spec == Init /\ [][Next]_vars

\* ------------------------------------------------------------ the claims

\* The calls the claims are about.
Done == pc = "done"
KnownCall == startId \in Keys(navigationNodes) /\ endId \in Keys(navigationNodes)

RECURSIVE PathsFrom(_, _, _)
\* The paths that extend p to b along the connections lists without visiting
\* a waypoint twice (sequences of keys).
PathsFrom(g, p, b) ==
  IF p[Len(p)] = b THEN {p}
  ELSE UNION { PathsFrom(g, Append(p, n), b) :
               n \in (Range(Node(g, p[Len(p)]).connections) \cap Keys(g)) \ Range(p) }

\* b can be reached from a along the connections lists.
Reachable(g, a, b) == PathsFrom(g, <<a>>, b) # {}

RECURSIVE SumDistance(_, _)
\* The sum of PathStep.distance over steps[i..], in tenths.
SumDistance(steps, i) ==
  IF i > Len(steps) THEN 0 ELSE steps[i].distance + SumDistance(steps, i + 1)

RECURSIVE SegmentSum(_, _, _)
\* The sum of the segment lengths (rounded as PathStep.distance is) along the
\* path p from its entry i on, in tenths.
SegmentSum(g, p, i) ==
  IF i >= Len(p) THEN 0
  ELSE RoundTenths(calculateDistance(Node(g, p[i]).position, Node(g, p[i + 1]).position))
         + SegmentSum(g, p, i + 1)

\* C1: for waypoints a, b with b reachable from a, the sum of distance over
\* the steps findPath(a, b) returns is at most the sum of the segment lengths
\* along any path from a to b that follows the connections lists.  (A path
\* that repeats a waypoint is no shorter than the one without the repetition.)
C1_ShortestRoute ==
  (Done /\ KnownCall /\ Reachable(navigationNodes, startId, endId))
    => \A p \in PathsFrom(navigationNodes, <<startId>>, endId) :
         SumDistance(result.steps, 1) <= SegmentSum(navigationNodes, p, 1)

\* A returned route between two waypoints joined by a longer path as well.
C1_Witness ==
  /\ Done /\ KnownCall /\ result.steps # <<>>
  /\ \E p \in PathsFrom(navigationNodes, <<startId>>, endId) :
       SegmentSum(navigationNodes, p, 1) > SumDistance(result.steps, 1)

\* C2: for distinct waypoints a, b with b reachable from a, findPath(a, b)
\* returns a non-empty list that starts from a, ends at b, and in which each
\* step starts where the one before it ends.
C2_RouteChains ==
  (Done /\ KnownCall /\ startId # endId
        /\ Reachable(navigationNodes, startId, endId))
    => /\ result.kind = "steps"
       /\ result.steps # <<>>
       /\ result.steps[1].from = startId
       /\ result.steps[Len(result.steps)].to = endId
       /\ \A i \in 1 .. (Len(result.steps) - 1) :
            result.steps[i].to = result.steps[i + 1].from

\* A returned route of several steps.
C2_Witness ==
  Done /\ KnownCall /\ startId # endId /\ Len(result.steps) >= 3

\* C3: for a waypoint w, findPath(w, w) reconstructs the path [w] and returns
\* an empty step list.
C3_SameWaypoint ==
  (Done /\ KnownCall /\ startId = endId)
    => path = <<startId>> /\ result = Returned(<<>>)

\* findPath(w, w) has returned.
C3_Witness == Done /\ KnownCall /\ startId = endId

\* C4: a call whose startId or endId is not a key of the graph ends with an
\* UnknownWaypoint failure, never with a step list.
C4_UnknownWaypoint ==
  (Done /\ ~KnownCall) => result.kind = "UnknownWaypoint"

\* C5: the predecessor walk stops: it takes no more entries than there are
\* waypoints (plus endId itself), and no entry of the path is null or
\* undefined.
C5_WalkStops ==
  (pc \in {"reconstruct", "synthesize", "done"})
    => /\ Len(path) <= Cardinality(Keys(navigationNodes)) + 1
       /\ \A i \in DOMAIN path : path[i] \notin {Null, Undefined}

\* C6: a call between two waypoints of the graph with no path between them
\* ends with a NoPathFound failure, never with a step list.
C6_NoPathFound ==
  (Done /\ KnownCall /\ ~Reachable(navigationNodes, startId, endId))
    => result.kind = "NoPathFound"

\* C7: in every returned step, floorChange is set only when the step changes
\* floor to a stairs or elevator waypoint, and it is up when floor(to) is the
\* greater and down when it is the smaller.
C7_FloorChangeOnlyOnChange ==
  Done =>
    \A i \in DOMAIN result.steps :
      LET s == result.steps[i]
          fromNode == Node(navigationNodes, s.from)
          toNode == Node(navigationNodes, s.to)
      IN  s.floorChange # Undefined
            => /\ toNode.floor # fromNode.floor
               /\ toNode.type \in {"stairs", "elevator"}
               /\ s.floorChange = (IF toNode.floor > fromNode.floor THEN "up" ELSE "down")

\* The call findPath('ENTRANCE', 'LIB') on the fixed graph has returned.
EntranceToLib ==
  /\ Done /\ navigationNodes = slcNodes
  /\ startId = "ENTRANCE" /\ endId = "LIB"

\* C8: the steps of findPath('ENTRANCE', 'LIB') on the fixed graph hold
\* exactly one step with floorChange set.
C8_OneFloorChange ==
  EntranceToLib
    => Cardinality({i \in DOMAIN result.steps :
                      result.steps[i].floorChange # Undefined}) = 1

\* C9: the steps of findPath('ENTRANCE', 'LIB') on the fixed graph end at LIB,
\* and their floor values never decrease and are never below the floor of
\* ENTRANCE.
C9_FloorsNonDecreasing ==
  EntranceToLib
    => /\ result.steps # <<>>
       /\ result.steps[Len(result.steps)].to = "LIB"
       /\ \A i \in 1 .. (Len(result.steps) - 1) :
            result.steps[i].floor <= result.steps[i + 1].floor
       /\ \A i \in DOMAIN result.steps :
            result.steps[i].floor >= Node(slcNodes, "ENTRANCE").floor

\* findPath('ENTRANCE', 'LIB') has returned a route that changes floor.
C9_Witness ==
  /\ EntranceToLib
  /\ \E i \in DOMAIN result.steps :
       result.steps[i].floor > Node(slcNodes, "ENTRANCE").floor

\* C10: a returned step to an elevator waypoint reads 'Take the elevator up
\* to floor N' with floorChange up when floor(to) > floor(from), 'Take the
\* elevator down to floor N' with floorChange down when floor(to) <
\* floor(from), and 'Continue to the elevator' with no floorChange when the
\* floors are equal (N = floor(to)).
C10_ElevatorText ==
  Done =>
    \A i \in DOMAIN result.steps :
      LET s == result.steps[i]
          fromNode == Node(navigationNodes, s.from)
          toNode == Node(navigationNodes, s.to)
          N == ToString(toNode.floor)
      IN  toNode.type = "elevator"
            => /\ toNode.floor > fromNode.floor
                  => /\ s.instruction = "Take the elevator up to floor " \o N
                     /\ s.floorChange = "up"
               /\ toNode.floor < fromNode.floor
                  => /\ s.instruction = "Take the elevator down to floor " \o N
                     /\ s.floorChange = "down"
               /\ toNode.floor = fromNode.floor
                  => /\ s.instruction = "Continue to the elevator"
                     /\ s.floorChange = Undefined

\* A returned route that reaches an elevator on its own floor and then rides
\* it up.
C10_Witness ==
  /\ Done
  /\ \E i \in DOMAIN result.steps :
       /\ Node(navigationNodes, result.steps[i].to).type = "elevator"
       /\ result.steps[i].floorChange = Undefined
  /\ \E i \in DOMAIN result.steps :
       /\ Node(navigationNodes, result.steps[i].to).type = "elevator"
       /\ result.steps[i].floorChange = "up"

\* The categories of a waypoint.
Categories == {"room", "hallway", "stairs", "elevator", "entrance"}

\* C11: the text of a returned step is that of the category of the waypoint
\* it leads to: stairs and elevator texts for stairs and elevator, 'Arrive at
\* <to id>' for a room, 'Continue <bearing> down the hallway' for a hallway,
\* 'Head <bearing>' for an entrance; and the same step leaving a waypoint of
\* any other category has the same text.
C11_TextByDestination ==
  Done =>
    \A i \in DOMAIN result.steps :
      LET s == result.steps[i]
          fromNode == Node(navigationNodes, s.from)
          toNode == Node(navigationNodes, s.to)
          N == ToString(toNode.floor)
      IN  /\ toNode.type = "stairs"
               => s.instruction \in {"Take the stairs up to floor " \o N,
                                     "Take the stairs down to floor " \o N}
          /\ toNode.type = "elevator"
               => s.instruction \in {"Take the elevator up to floor " \o N,
                                     "Take the elevator down to floor " \o N,
                                     "Continue to the elevator"}
          /\ toNode.type = "room" => s.instruction = "Arrive at " \o s.to
          /\ toNode.type = "hallway"
               => s.instruction = "Continue " \o s.direction \o " down the hallway"
          /\ toNode.type = "entrance" => s.instruction = "Head " \o s.direction
          /\ \A c \in Categories :
               MakeStep([fromNode EXCEPT !.type = c], toNode).instruction
                 = s.instruction

\* A returned route with a step to a hallway and a step to an entrance.
C11_Witness ==
  /\ Done
  /\ \E i \in DOMAIN result.steps :
       Node(navigationNodes, result.steps[i].to).type = "hallway"
  /\ \E i \in DOMAIN result.steps :
       Node(navigationNodes, result.steps[i].to).type = "entrance"

\* ------------------------------------- the functions applied on their own

\* Angles are tried from -AngleLimit to AngleLimit tenths of a degree
\* (Math.atan2 gives -180 to 180 degrees).
AngleLimit == 1800

\* Positions are tried on the grid of x and z from -MaxCoord to MaxCoord, on
\* the heights of the two floors, besides the positions of the dataset.
MaxCoord == 2

\* Step lists of up to MaxStepList steps are tried.
MaxStepList == 3

Heights == {1, 2}

Positions ==
  {slcNodes[i].position : i \in DOMAIN slcNodes}
    \cup {<<x, y, z>> : x \in -MaxCoord .. MaxCoord, y \in Heights,
                        z \in -MaxCoord .. MaxCoord}

\* The steps between three waypoints of the dataset, a step from a waypoint to
\* itself included.
StepPool ==
  LET sample == {"ENTRANCE", "HALL1_1", "HALL1_2"}
  IN  {MakeStep(Node(slcNodes, a), Node(slcNodes, b)) : a \in sample, b \in sample}

StepLists ==
  UNION {[1 .. n -> StepPool] : n \in 0 .. MaxStepList}
    \cup {findPath(slcNodes, "ENTRANCE", "LIB").steps}

FnInputs ==
  {[fn |-> "DirectionOfAngle", angle |-> a] : a \in -AngleLimit .. AngleLimit}
    \cup {[fn |-> "getDirection", from |-> p, to |-> q] : p \in Positions, q \in Positions}
    \cup {[fn |-> "getPathNodes", steps |-> s] : s \in StepLists}

FnInit ==
  /\ navigationNodes = slcNodes
  /\ pc = "idle"
  /\ startId = Null
  /\ endId = Null
  /\ distances = <<>>
  /\ previous = <<>>
  /\ unvisited = {}
  /\ path = <<>>
  /\ current = Null
  /\ result = NoResult
  /\ settled = <<>>
  /\ pathNodes = Null
  /\ args \in FnInputs
  /\ value = NoValue
  /\ earlier = FALSE
  /\ destination = Null
  /\ currentFloor = 1
  /\ pathSteps = <<>>
  /\ currentStep = 0
  /\ isARActive = FALSE

\* The variables of a findPath call and of its caller.
callVars ==
  <<navigationNodes, pc, startId, endId, distances, previous, unvisited,
    path, current, result, settled, pathNodes, earlier>>

ApplyDirectionOfAngle ==
  /\ args.fn = "DirectionOfAngle"
  /\ value' = Applied(DirectionOfAngle(args.angle))
  /\ UNCHANGED <<callVars, args, uiVars>>

ApplyGetDirection ==
  /\ args.fn = "getDirection"
  /\ value' = Applied(getDirection(args.from, args.to))
  /\ UNCHANGED <<callVars, args, uiVars>>

ApplyGetPathNodes ==
  /\ args.fn = "getPathNodes"
  /\ value' = Applied(getPathNodes(args.steps))
  /\ UNCHANGED <<callVars, args, uiVars>>

FnNext ==
  \/ ApplyDirectionOfAngle
  \/ ApplyGetDirection
  \/ ApplyGetPathNodes

\* One function of the module applied once to one input.
FnSpec == FnInit /\ [][FnNext]_vars

\* The label of the 45-degree sector an angle (in tenths of a degree) lies
\* in, the sectors being centred on east 0, northeast 45, north 90, northwest
\* 135, west 180, southwest -135, south -90, southeast -45 and closed at their
\* lower end.
SectorOf(angle) == SectorLabels[(((angle + 225 + 3600) \div 450) % 8) + 1]

\* The labels the specification names for eight angles.
NamedAngles ==
  (-1800 :> "west") @@ (-1350 :> "southwest") @@ (-900 :> "south")
    @@ (-450 :> "southeast") @@ (0 :> "east") @@ (449 :> "northeast")
    @@ (450 :> "northeast") @@ (901 :> "north")

\* C12: every angle satisfies exactly one of the eight interval tests and
\* gets the label of its 45-degree sector, never 'forward'; the eight named
\* angles get the named labels; and no pair of positions (those of the
\* dataset included) gets 'forward'.
C12_EightSectors ==
  /\ (args.fn = "DirectionOfAngle" /\ value.applied)
       => /\ Cardinality({i \in 1 .. 8 : SectorTests(args.angle)[i]}) = 1
          /\ value.result = SectorOf(args.angle)
          /\ value.result # "forward"
          /\ args.angle \in DOMAIN NamedAngles
               => value.result = NamedAngles[args.angle]
  /\ (args.fn = "getDirection" /\ value.applied)
       => value.result \in Range(SectorLabels)

\* The angle 44.9 has been classified.
C12_Witness ==
  /\ args.fn = "DirectionOfAngle"
  /\ args.angle = 449
  /\ value.applied
  /\ value.result = "northeast"

\* C13: the direction of a step is that of every pair of positions with the
\* same horizontal displacement (dx, dz), whatever the two heights are; it is
\* a compass label, never a word for a floor change.
C13_HorizontalOnly ==
  (args.fn = "getDirection" /\ value.applied)
    => /\ \A y1 \in Heights, y2 \in Heights, tx \in -1 .. 1, tz \in -1 .. 1 :
            getDirection(<<args.from[1] + tx, y1, args.from[3] + tz>>,
                         <<args.to[1] + tx, y2, args.to[3] + tz>>) = value.result
       /\ value.result \notin {"up", "down"}

\* A direction has been computed for two positions on different heights and
\* different horizontal places.
C13_Witness ==
  /\ args.fn = "getDirection"
  /\ value.applied
  /\ args.from[2] # args.to[2]
  /\ <<args.from[1], args.from[3]>> # <<args.to[1], args.to[3]>>

\* The ids of a step list in reading order: from and to of the first step,
\* then of the second, and so on.
EndpointsInOrder(steps) ==
  [k \in 1 .. 2 * Len(steps) |->
     IF k % 2 = 1 THEN steps[(k + 1) \div 2].from ELSE steps[k \div 2].to]

\* The place of the first occurrence of an id among the endpoints.
FirstOccurrence(steps, id) ==
  CHOOSE k \in 1 .. 2 * Len(steps) :
    /\ EndpointsInOrder(steps)[k] = id
    /\ \A j \in 1 .. k - 1 : EndpointsInOrder(steps)[j] # id

EntranceToLibSteps == findPath(slcNodes, "ENTRANCE", "LIB").steps

\* C14: getPathNodes returns every id that occurs as from or to exactly once,
\* in the order of first occurrence; the empty list gives the empty list; and
\* the list of findPath('ENTRANCE', 'LIB') gives one entry more than it has
\* steps.
C14_FirstOccurrenceOrder ==
  (args.fn = "getPathNodes" /\ value.applied)
    => /\ Range(value.result) = Range(EndpointsInOrder(args.steps))
       /\ \A i \in 1 .. Len(value.result), j \in 1 .. Len(value.result) :
            i < j => /\ value.result[i] # value.result[j]
                     /\ FirstOccurrence(args.steps, value.result[i])
                          < FirstOccurrence(args.steps, value.result[j])
       /\ args.steps = <<>> => value.result = <<>>
       /\ args.steps = EntranceToLibSteps
            => Len(args.steps) > 0 /\ Len(value.result) = Len(args.steps) + 1

\* getPathNodes has been applied to a list in which an id occurs again after
\* another id.
C14_Witness ==
  /\ args.fn = "getPathNodes"
  /\ value.applied
  /\ Len(args.steps) = 3
  /\ args.steps[1].to = args.steps[2].from
  /\ args.steps[3].to = args.steps[1].from
  /\ Len(value.result) = 3

\* The nodes removed from unvisited so far in the call.
SettledNodes == {settled[i].node : i \in 1 .. Len(settled)}

\* C15: an iteration of the search loop that does not stop the search removes
\* exactly one node from unvisited; a removed node is not in unvisited again
\* (so it is never selected again), its distance and predecessor stay as they
\* were at its removal (it is never relaxed again), and no more than |V| nodes
\* are removed in a call.
C15_SettleOnce ==
  /\ [](pc # "idle"
          => /\ \A i \in 1 .. Len(settled), j \in 1 .. Len(settled) :
                  i # j => settled[i].node # settled[j].node
             /\ unvisited = Keys(navigationNodes) \ SettledNodes
             /\ Len(settled) <= Cardinality(Keys(navigationNodes))
             /\ \A i \in 1 .. Len(settled) :
                  /\ distances[settled[i].node] = settled[i].distance
                  /\ previous[settled[i].node] = settled[i].previous)
  /\ [][(pc = "search" /\ pc' = "search")
          => /\ unvisited' \subseteq unvisited
             /\ Cardinality(unvisited') = Cardinality(unvisited) - 1
             /\ Len(settled') = Len(settled) + 1]_vars

\* A search has removed every node of the graph.
C15_Witness ==
  /\ pc = "reconstruct"
  /\ unvisited = {}
  /\ Len(settled) = Cardinality(Keys(navigationNodes))
  /\ Len(settled) > 3

\* The graph g with every connection to an id that is no key left out.
WithoutDangling(g) ==
  [i \in DOMAIN g |->
     [g[i] EXCEPT !.connections = SelectSeq(@, LAMBDA id : id \in Keys(g))]]

\* The connections of currentNode that name no key.
DanglingOf(g, currentNode) == Range(Node(g, currentNode).connections) \ Keys(g)

\* C16: a connection to an id that is no key is skipped: the call does not
\* end in a TypeError for reading the position of an undefined neighbor,
\* distances and previous have entries for the keys only, and for known
\* waypoints the result is that of the graph without the connection.
C16_DanglingSkipped ==
  (pc # "idle")
    => /\ result.kind \in {"none", "steps"}
       /\ DOMAIN distances = Keys(navigationNodes)
       /\ DOMAIN previous = Keys(navigationNodes)
       /\ (Done /\ KnownCall)
            => result = findPath(WithoutDangling(navigationNodes), startId, endId)

\* A call has returned a route that leaves a waypoint after the search has
\* gone through a connections list of that waypoint naming an absent id.
C16_Witness ==
  /\ Done
  /\ KnownCall
  /\ Len(result.steps) >= 2
  /\ \E i \in 1 .. Len(result.steps) :
       DanglingOf(navigationNodes, result.steps[i].from) # {}

\* b is in the connections list of a.
Lists(g, a, b) == b \in Range(Node(g, a).connections)

\* C17: in the fixed graph, B is in the connections list of A if and only if
\* A is in the connections list of B.
C17_SymmetricAdjacency ==
  navigationNodes = slcNodes
    => \A a \in Keys(slcNodes), b \in Keys(slcNodes) :
         Lists(slcNodes, a, b) <=> Lists(slcNodes, b, a)

\* C18: no call changes navigationNodes, and what a call returns is what
\* findPath gives for its two arguments on the graph, whether or not other
\* calls were made before it; getPathNodes gives the ids of the steps it was
\* passed.
C18_ReadOnlyStateless ==
  /\ [][navigationNodes' = navigationNodes]_vars
  /\ []((Done /\ endId \in Keys(navigationNodes))
          => result = findPath(navigationNodes, startId, endId))
  /\ [](pathNodes # Null => pathNodes = getPathNodes(result.steps))

\* A call made after another call had returned has itself returned a route,
\* and getPathNodes has been called on it.
C18_Witness ==
  /\ earlier
  /\ Done
  /\ Len(result.steps) >= 2
  /\ pathNodes # Null

RECURSIVE PathLength(_, _, _)
\* The length of the path p from its entry i on, as findPath adds it up (not
\* rounded).
PathLength(g, p, i) ==
  IF i >= Len(p) THEN 0
  ELSE calculateDistance(Node(g, p[i]).position, Node(g, p[i + 1]).position)
         + PathLength(g, p, i + 1)

\* C19: nodes leave unvisited in non-decreasing order of the distance they
\* have when they leave; the distance and the predecessor of a node that has
\* left are those it had when it left; and once endId has left, distances[endId]
\* is the length of a path from startId to endId and no path from startId to
\* endId is shorter.
C19_SettledInOrder ==
  (pc # "idle")
    => /\ \A i \in 1 .. Len(settled), j \in 1 .. Len(settled) :
            i < j => /\ settled[i].distance # Infinity
                     /\ settled[j].distance # Infinity
                     /\ settled[i].distance <= settled[j].distance
       /\ \A i \in 1 .. Len(settled) :
            /\ distances[settled[i].node] = settled[i].distance
            /\ previous[settled[i].node] = settled[i].previous
       /\ (endId \in SettledNodes)
            => /\ \E p \in PathsFrom(navigationNodes, <<startId>>, endId) :
                    distances[endId] = PathLength(navigationNodes, p, 1)
               /\ \A p \in PathsFrom(navigationNodes, <<startId>>, endId) :
                    distances[endId] <= PathLength(navigationNodes, p, 1)

\* The search has stopped at endId after removing nodes at growing distances,
\* while a longer path to endId exists.
C19_Witness ==
  /\ pc = "reconstruct"
  /\ endId \in SettledNodes
  /\ Len(settled) >= 4
  /\ settled[1].distance < settled[Len(settled)].distance
  /\ unvisited # {}
  /\ \E p \in PathsFrom(navigationNodes, <<startId>>, endId) :
       distances[endId] < PathLength(navigationNodes, p, 1)

RECURSIVE ChainFrom(_, _, _)
\* The nodes met by following prev from n, n first, for at most hops hops.
ChainFrom(prev, n, hops) ==
  IF prev[n] = Null \/ hops = 0 THEN <<n>>
  ELSE <<n>> \o ChainFrom(prev, prev[n], hops - 1)

\* C20: while the search loop runs (and in what it leaves behind), every node
\* n with a predecessor has one that has left unvisited and lists n in its
\* connections, distances[n] is the predecessor's distance plus the length of
\* the edge between them, and following previous from n ends at startId in
\* fewer than |V| hops and meets no node twice.
C20_PredecessorTree ==
  (pc \in {"search", "reconstruct", "synthesize", "done"})
    => \A n \in Keys(navigationNodes) :
         previous[n] # Null
           => LET p == previous[n]
                  size == Cardinality(Keys(navigationNodes))
                  chain == ChainFrom(previous, n, size)
              IN  /\ p \in Keys(navigationNodes)
                  /\ p \notin unvisited
                  /\ Lists(navigationNodes, p, n)
                  /\ distances[n] = distances[p]
                       + calculateDistance(Node(navigationNodes, p).position,
                                           Node(navigationNodes, n).position)
                  /\ chain[Len(chain)] = startId
                  /\ Len(chain) - 1 < size
                  /\ Cardinality(Range(chain)) = Len(chain)

\* In the middle of a search a node that is still unvisited has a predecessor
\* two hops or more away from startId.
C20_Witness ==
  /\ pc = "search"
  /\ \E n \in unvisited :
       /\ previous[n] # Null
       /\ Len(ChainFrom(previous, n, Cardinality(Keys(navigationNodes)))) >= 3

\* C21: every step of a route returned for two waypoints of the graph goes
\* from a waypoint to one that its connections list names.
C21_StepsAreEdges ==
  (Done /\ KnownCall)
    => \A i \in 1 .. Len(result.steps) :
         /\ result.steps[i].from \in Keys(navigationNodes)
         /\ result.steps[i].to \in Keys(navigationNodes)
         /\ Lists(navigationNodes, result.steps[i].from, result.steps[i].to)

\* A returned route takes an edge that is listed in one direction only.
C21_Witness ==
  /\ Done
  /\ KnownCall
  /\ \E i \in 1 .. Len(result.steps) :
       /\ Lists(navigationNodes, result.steps[i].from, result.steps[i].to)
       /\ ~Lists(navigationNodes, result.steps[i].to, result.steps[i].from)

\* The waypoints a route goes through: where it starts, then where each step
\* ends.
Visited(steps) ==
  IF steps = <<>> THEN <<>>
  ELSE <<steps[1].from>> \o [i \in 1 .. Len(steps) |-> steps[i].to]

\* C22: a route returned for two waypoints of the graph goes through no
\* waypoint twice, and getPathNodes gives one id more than a non-empty route
\* has steps.
C22_NoWaypointTwice ==
  (Done /\ KnownCall)
    => /\ \A i \in 1 .. Len(Visited(result.steps)),
             j \in 1 .. Len(Visited(result.steps)) :
            i # j => Visited(result.steps)[i] # Visited(result.steps)[j]
       /\ result.steps # <<>>
            => /\ Len(getPathNodes(result.steps)) = Len(result.steps) + 1
               /\ pathNodes # Null => Len(pathNodes) = Len(result.steps) + 1

\* getPathNodes has been called on a returned route of three steps or more.
C22_Witness ==
  /\ Done
  /\ KnownCall
  /\ Len(result.steps) >= 3
  /\ pathNodes # Null
  /\ Len(pathNodes) = Len(result.steps) + 1

\* ------------------------------------------ the Navigation3D component

\* The searchable rooms: id and floor of each entry of rooms.
rooms ==
  { [id |-> "A233", floor |-> 2], [id |-> "11840", floor |-> 1],
    [id |-> "B101", floor |-> 1], [id |-> "C205", floor |-> 2],
    [id |-> "CAFE", floor |-> 1], [id |-> "LIB", floor |-> 2] }

\* The floors of the floor selector.
Floors == {1, 2, 3}

UiInit ==
  /\ navigationNodes = slcNodes
  /\ pc = "idle"
  /\ startId = Null
  /\ endId = Null
  /\ distances = <<>>
  /\ previous = <<>>
  /\ unvisited = {}
  /\ path = <<>>
  /\ current = Null
  /\ result = NoResult
  /\ settled = <<>>
  /\ pathNodes = Null
  /\ args = NoArgs
  /\ value = NoValue
  /\ earlier = FALSE
  /\ destination = Null
  /\ currentFloor = 1
  /\ pathSteps = <<>>
  /\ currentStep = 0
  /\ isARActive = FALSE

\* Mutant of handleRoomSelect: setCurrentStep(0) is left out.
handleRoomSelectKeepingStep(room) ==
  /\ destination' = room.id
  /\ currentFloor' = room.floor
  /\ pathSteps' = findPath(navigationNodes, "ENTRANCE", room.id).steps
  /\ UNCHANGED <<callVars, args, value, currentStep, isARActive>>

\* handleRoomSelect(room): the route from the entrance, shown from its first
\* step.
handleRoomSelect(room) ==
  /\ destination' = room.id
  /\ currentFloor' = room.floor
  /\ pathSteps' = findPath(navigationNodes, "ENTRANCE", room.id).steps
  /\ currentStep' = 0
  /\ UNCHANGED <<callVars, args, value, isARActive>>

clearDestination ==
  /\ destination' = Null
  /\ currentFloor' = 1
  /\ pathSteps' = <<>>
  /\ currentStep' = 0
  /\ UNCHANGED <<callVars, args, value, isARActive>>

\* nextStep: pathSteps[currentStep + 1] of the code is the entry
\* currentStep + 2 of the sequence.
nextStep ==
  /\ IF currentStep < Len(pathSteps) - 1
     THEN /\ currentStep' = currentStep + 1
          /\ currentFloor' = pathSteps[currentStep + 2].floor
     ELSE UNCHANGED <<currentStep, currentFloor>>
  /\ UNCHANGED <<callVars, args, value, destination, pathSteps, isARActive>>

\* prevStep: pathSteps[currentStep - 1] of the code is the entry currentStep
\* of the sequence.
prevStep ==
  /\ IF currentStep > 0
     THEN /\ currentStep' = currentStep - 1
          /\ currentFloor' = pathSteps[currentStep].floor
     ELSE UNCHANGED <<currentStep, currentFloor>>
  /\ UNCHANGED <<callVars, args, value, destination, pathSteps, isARActive>>

\* A button of the floor selector: setCurrentFloor(floor).
selectFloor(floor) ==
  /\ currentFloor' = floor
  /\ UNCHANGED <<callVars, args, value, destination, pathSteps, currentStep,
                 isARActive>>

\* toggleAR: setIsARActive(!isARActive)
toggleAR ==
  /\ isARActive' = ~isARActive
  /\ UNCHANGED <<callVars, args, value, destination, currentFloor, pathSteps,
                 currentStep>>

UiNext ==
  \/ \E room \in rooms : handleRoomSelect(room)
  \/ clearDestination
  \/ nextStep
  \/ prevStep
  \/ \E floor \in Floors : selectFloor(floor)
  \/ toggleAR

\* The handlers of the component, one event at a time.
UiSpec == UiInit /\ [][UiNext]_vars

\* C23: currentStep is never negative and is an index of pathSteps whenever
\* pathSteps is not empty; nextStep on the last step and prevStep on step 0
\* change neither currentStep nor currentFloor; a room selection and a clear
\* put currentStep at 0.
C23_StepInRange ==
  /\ [](/\ currentStep >= 0
        /\ pathSteps # <<>> => currentStep < Len(pathSteps))
  /\ [][(nextStep /\ currentStep >= Len(pathSteps) - 1)
          => (currentStep' = currentStep /\ currentFloor' = currentFloor)]_vars
  /\ [][(prevStep /\ currentStep = 0)
          => (currentStep' = currentStep /\ currentFloor' = currentFloor)]_vars
  /\ [][((\E room \in rooms : handleRoomSelect(room)) \/ clearDestination)
          => currentStep' = 0]_vars

\* The last step of the route to the library is shown, reached with nextStep.
C23_Witness ==
  /\ destination = "LIB"
  /\ Len(pathSteps) >= 3
  /\ currentStep = Len(pathSteps) - 1

=============================================================================
